---- MODULE Spec2Model ----
(***************************************************************************)
(* Subway congestion dashboard: the loader/normaliser of data_loader.py    *)
(* and the query layer of aggregations.py, as state machines.              *)
(*                                                                         *)
(* Text is a sequence of characters.  The Hangul syllables of the source   *)
(* are written romanised, one token per syllable ("si" is the hour marker, *)
(* "bun" the minute marker), and CharCode gives each character its Unicode *)
(* code point, which is what Python and pandas compare strings by.         *)
(***************************************************************************)
EXTENDS Integers, Sequences, FiniteSets, TLC

VARIABLES
    pc,           \* position in the dashboard script
    file,         \* what pd.read_csv returned: header and text cells
    df_wide,      \* the table load_data returned
    df_long,      \* the table to_long_format returned
    err,          \* the exception that ended the script, or "none"
    filters,      \* the filter dictionary of the current run
    df_filtered,  \* the table apply_filters returned
    call,         \* the last query called, with its arguments
    result        \* what that query returned

vars == <<pc, file, df_wide, df_long, err, filters, df_filtered, call, result>>

(***************************************************************************)
(* Characters and strings                                                  *)
(***************************************************************************)
CharCode(c) ==
    CASE c = " " -> 32 [] c = "-" -> 45
      [] c = "0" -> 48 [] c = "1" -> 49 [] c = "2" -> 50 [] c = "3" -> 51
      [] c = "4" -> 52 [] c = "5" -> 53 [] c = "6" -> 54 [] c = "7" -> 55
      [] c = "8" -> 56 [] c = "9" -> 57 [] c = ":" -> 58 [] c = "x" -> 120
      [] c = "gang" -> 44053 [] c = "gu" -> 44396 [] c = "geun" -> 44540
      [] c = "nam" -> 45224 [] c = "dae" -> 45824 [] c = "dong" -> 46041
      [] c = "mal" -> 47568 [] c = "myeong" -> 47749 [] c = "mun" -> 47928
      [] c = "beon" -> 48264 [] c = "bun" -> 48516 [] c = "sang" -> 49345
      [] c = "seo" -> 49436 [] c = "seon" -> 49440 [] c = "seung" -> 49849
      [] c = "si" -> 49884 [] c = "sim" -> 49900 [] c = "ya" -> 50556
      [] c = "yeok" -> 50669 [] c = "yo" -> 50836 [] c = "ul" -> 50872
      [] c = "jeom" -> 51216 [] c = "il" -> 51068 [] c = "ju" -> 51452
      [] c = "cheong" -> 52397 [] c = "chul" -> 52636 [] c = "to" -> 53664
      [] c = "toe" -> 53748 [] c = "pyeong" -> 54217 [] c = "ha" -> 54616
      [] c = "ho" -> 54840

Digits == {"0", "1", "2", "3", "4", "5", "6", "7", "8", "9"}

DigitVal(c) == CharCode(c) - 48

\* a < b for str: lexicographic by code point
RECURSIVE StrLess(_, _)
StrLess(a, b) ==
    IF b = <<>> THEN FALSE
    ELSE IF a = <<>> THEN TRUE
    ELSE IF Head(a) # Head(b) THEN CharCode(Head(a)) < CharCode(Head(b))
    ELSE StrLess(Tail(a), Tail(b))

StrLeq(a, b) == a = b \/ StrLess(a, b)

\* str.strip(): leading and trailing whitespace removed
RECURSIVE lstrip(_)
lstrip(s) == IF s # <<>> /\ Head(s) = " " THEN lstrip(Tail(s)) ELSE s

RECURSIVE rstrip(_)
rstrip(s) ==
    IF s # <<>> /\ s[Len(s)] = " " THEN rstrip(SubSeq(s, 1, Len(s) - 1)) ELSE s

strip(s) == rstrip(lstrip(s))

\* str.replace(old, new) for a one-character old
RECURSIVE str_replace(_, _, _)
str_replace(s, old, new) ==
    IF s = <<>> THEN <<>>
    ELSE (IF Head(s) = old THEN new ELSE <<Head(s)>>)
         \o str_replace(Tail(s), old, new)

\* sub in s
Contains(s, sub) ==
    \E i \in 0..(Len(s) - Len(sub)) : SubSeq(s, i + 1, i + Len(sub)) = sub

InSeq(x, s) == \E i \in 1..Len(s) : s[i] = x

Count(x, s) == Cardinality({i \in 1..Len(s) : s[i] = x})

RECURSIVE SeqSum(_)
SeqSum(s) == IF s = <<>> THEN 0 ELSE Head(s) + SeqSum(Tail(s))

\* str.split(sep) for a one-character sep
RECURSIVE split(_, _)
split(s, sep) ==
    IF ~InSeq(sep, s) THEN <<s>>
    ELSE LET i == CHOOSE k \in 1..Len(s) : s[k] = sep /\ \A m \in 1..(k - 1) : s[m] # sep
         IN  <<SubSeq(s, 1, i - 1)>> \o split(SubSeq(s, i + 1, Len(s)), sep)

(***************************************************************************)
(* Cells of a table: text, a number, or a missing value (NaN)              *)
(***************************************************************************)
Str(s) == [t |-> "str", s |-> s, n |-> 0]
Num(n) == [t |-> "num", s |-> <<>>, n |-> n]
NaN == [t |-> "nan", s |-> <<>>, n |-> 0]

\* the text of an unsigned decimal numeral
RECURSIVE NumVal(_)
NumVal(ds) ==
    IF ds = <<>> THEN 0 ELSE 10 * NumVal(SubSeq(ds, 1, Len(ds) - 1)) + DigitVal(ds[Len(ds)])

AllDigits(s) == s # <<>> /\ \A i \in 1..Len(s) : s[i] \in Digits

\* A number is written as its count of hundredths: 45 is 4500 and 90.25 is
\* 9025.  The values the model reads have at most two decimals.
Unit == 100

\* the hundredths of an unsigned numeral 'ddd', 'ddd.d' or 'ddd.dd', and -1
\* for any other text
unsigned_value(s) ==
    IF AllDigits(s) THEN Unit * NumVal(s)
    ELSE IF Len(split(s, ".")) = 2
            /\ AllDigits(split(s, ".")[1]) /\ AllDigits(split(s, ".")[2])
            /\ Len(split(s, ".")[2]) <= 2
         THEN Unit * NumVal(split(s, ".")[1])
              + (IF Len(split(s, ".")[2]) = 1 THEN 10 ELSE 1) * NumVal(split(s, ".")[2])
         ELSE 0 - 1

\* pd.to_numeric(x, errors='coerce') on one text cell, for the numerals
\* with an optional minus sign and at most two decimals
to_numeric(s) ==
    IF unsigned_value(s) >= 0 THEN Num(unsigned_value(s))
    ELSE IF s # <<>> /\ Head(s) = "-" /\ unsigned_value(Tail(s)) >= 0
         THEN Num(0 - unsigned_value(Tail(s)))
    ELSE NaN

\* a fill that leaves the missing value in place
fillna_skipped(c) == c

\* Series.fillna(0) on one cell
fillna(c) == IF c.t = "nan" THEN Num(0) ELSE c

\* str(x) of a cell as astype(str) gives it
RECURSIVE NatText(_)
RECURSIVE number_text(_)
NatText(n) ==
    IF n < 10 THEN <<CHOOSE d \in Digits : DigitVal(d) = n>>
    ELSE NatText(n \div 10) \o <<CHOOSE d \in Digits : DigitVal(d) = n % 10>>

\* str(x) of a number: the whole part, and the decimals when there are any
number_text(n) ==
    IF n < 0 THEN <<"-">> \o number_text(0 - n)
    ELSE IF n % Unit = 0 THEN NatText(n \div Unit)
    ELSE NatText(n \div Unit) \o <<".">> \o NatText((n % Unit) \div 10)
         \o (IF n % 10 = 0 THEN <<>> ELSE NatText(n % 10))

astype_str(c) ==
    IF c.t = "str" THEN c.s
    ELSE IF c.t = "nan" THEN <<"n", "a", "n">>
    ELSE number_text(c.n)

(***************************************************************************)
(* data_loader.py: load_data                                               *)
(***************************************************************************)
\* the five identifying column names
col_yoilgubun == <<"yo", "il", "gu", "bun">>
col_hoseon == <<"ho", "seon">>
col_yeokbeonho == <<"yeok", "beon", "ho">>
col_yeokmyeong == <<"yeok", "myeong">>
col_seunghagubun == <<"seung", "ha", "gu", "bun">>

expected_cols ==
    <<col_yoilgubun, col_hoseon, col_yeokbeonho, col_yeokmyeong, col_seunghagubun>>

\* 'si' in col or '00bun' in col or '30bun' in col
is_time_col(col) ==
    \/ Contains(col, <<"si">>)
    \/ Contains(col, <<"0", "0", "bun">>)
    \/ Contains(col, <<"3", "0", "bun">>)

\* df.columns = df.columns.str.strip()
strip_columns(columns) == [i \in 1..Len(columns) |-> strip(columns[i])]

\* The header after the repair block.  Assigning df.columns a list whose
\* length differs from the number of columns raises ValueError.
repair_columns(columns) ==
    IF Len(columns) > 4
    THEN LET time_cols == SelectSeq(columns, is_time_col)
         IN  IF Len(columns) >= Len(expected_cols) + Len(time_cols)
             THEN LET new_cols == expected_cols \o time_cols
                      \* new_cols[:len(df.columns)]
                      cut == SubSeq(new_cols, 1,
                                    IF Len(columns) < Len(new_cols)
                                    THEN Len(columns) ELSE Len(new_cols))
                  IN  IF Len(cut) = Len(columns)
                      THEN [ok |-> TRUE, columns |-> cut, error |-> "none"]
                      ELSE [ok |-> FALSE, columns |-> columns, error |-> "ValueError"]
             ELSE [ok |-> TRUE, columns |-> columns, error |-> "none"]
    ELSE [ok |-> TRUE, columns |-> columns, error |-> "none"]

\* pd.to_numeric(df[col].astype(str).str.strip(), errors='coerce') then
\* fillna(0), on one cell
coerce_cell(c) == fillna(to_numeric(strip(astype_str(c))))

load_data(f) ==
    LET stripped == strip_columns(f.columns)
        rep == repair_columns(stripped)
        columns == rep.columns
        is_time(i) == ~InSeq(columns[i], expected_cols)
        \* df[col] of a repeated column name is a DataFrame, which has no .str
        repeated == \E i \in 1..Len(columns) : is_time(i) /\ Count(columns[i], columns) > 1
    IN  IF ~rep.ok THEN [ok |-> FALSE, error |-> rep.error, df |-> f]
        ELSE IF repeated THEN [ok |-> FALSE, error |-> "AttributeError", df |-> f]
        ELSE [ok |-> TRUE, error |-> "none",
              df |-> [columns |-> columns,
                      rows |-> [r \in 1..Len(f.rows) |->
                                 [i \in 1..Len(columns) |->
                                    IF is_time(i) THEN coerce_cell(f.rows[r][i])
                                    ELSE f.rows[r][i]]]]]

(***************************************************************************)
(* data_loader.py: to_long_format                                          *)
(***************************************************************************)
id_cols == expected_cols

ColIndex(columns, name) == CHOOSE i \in 1..Len(columns) : columns[i] = name

\* the positions of time_cols = [col for col in df.columns if col not in id_cols]
TimePositions(columns) ==
    SelectSeq([i \in 1..Len(columns) |-> i], LAMBDA i : ~InSeq(columns[i], id_cols))

\* df.melt(id_vars=id_cols, value_vars=time_cols, ...) with the renamed
\* columns: one record per value column (outer) and row (inner)
melt_columns(df, tp) ==
    LET R == Len(df.rows)
        at(name, r) == df.rows[r][ColIndex(df.columns, name)].s
    IN  [k \in 1..(R * Len(tp)) |->
           LET j == tp[((k - 1) \div R) + 1]
               r == ((k - 1) % R) + 1
           IN  [yoil |-> at(col_yoilgubun, r),
                hoseon |-> at(col_hoseon, r),
                yeokbeonho |-> at(col_yeokbeonho, r),
                yeokmyeong |-> at(col_yeokmyeong, r),
                banghyang |-> at(col_seunghagubun, r),
                sigan |-> df.columns[j],
                honjapdo |-> df.rows[r][j].n]]

\* a reshape that loses the first time column (value_vars=time_cols[1:])
melt_first_lost(df) ==
    LET tp == TimePositions(df.columns)
    IN  melt_columns(df, IF tp = <<>> THEN tp ELSE Tail(tp))

melt(df) == melt_columns(df, TimePositions(df.columns))

\* .str.replace('si', ':').str.replace('bun', '').str.strip()
clean_time(label) == strip(str_replace(str_replace(label, "si", <<":">>), "bun", <<>>))

\* .replace({'00:00': '24:00', '00:30': '24:30'}): whole values only
remap_midnight(t) ==
    IF t = <<"0", "0", ":", "0", "0">> THEN <<"2", "4", ":", "0", "0">>
    ELSE IF t = <<"0", "0", ":", "3", "0">> THEN <<"2", "4", ":", "3", "0">>
    ELSE t

\* the order of sort_values(['yoil', 'hoseon', 'yeokbeonho', 'banghyang', 'sigan'])
SortKey(rec) == <<rec.yoil, rec.hoseon, rec.yeokbeonho, rec.banghyang, rec.sigan>>

RECURSIVE KeyLess(_, _)
KeyLess(a, b) ==
    IF a = <<>> THEN FALSE
    ELSE IF Head(a) # Head(b) THEN StrLess(Head(a), Head(b))
    ELSE KeyLess(Tail(a), Tail(b))

RowLess(a, b) == KeyLess(SortKey(a), SortKey(b))

\* a stable sort: each record goes behind the records that do not sort after it
RECURSIVE insert_row(_, _)
insert_row(s, x) ==
    IF s = <<>> THEN <<x>>
    ELSE IF RowLess(x, Head(s)) THEN <<x>> \o s
    ELSE <<Head(s)>> \o insert_row(Tail(s), x)

RECURSIVE sort_values(_)
sort_values(s) ==
    IF s = <<>> THEN <<>>
    ELSE insert_row(sort_values(SubSeq(s, 1, Len(s) - 1)), s[Len(s)])

\* melt raises KeyError when an id column is not in the frame
to_long_format(df) ==
    IF \E i \in 1..Len(id_cols) : ~InSeq(id_cols[i], df.columns)
    THEN [ok |-> FALSE, error |-> "KeyError", df |-> <<>>, arg |-> df]
    ELSE LET molten == melt(df)
             timed == [k \in 1..Len(molten) |->
                         [molten[k] EXCEPT !.sigan = remap_midnight(clean_time(@))]]
         IN  [ok |-> TRUE, error |-> "none", df |-> sort_values(timed), arg |-> df]

(***************************************************************************)
(* Inputs: the values of the identifying columns, the time labels of the   *)
(* header and the texts of the congestion cells                            *)
(***************************************************************************)
MaxRows == 3        \* rows of a source table
MaxTimeCols == 2    \* time columns of a source table
MaxCells == 4       \* congestion cells of a table whose cell contents vary

pyeongil == <<"pyeong", "il">>
toyoil == <<"to", "yo", "il">>
iryoil == <<"il", "yo", "il">>
line1 == <<"1", "ho", "seon">>
line2 == <<"2", "ho", "seon">>
seoulyeok == <<"seo", "ul", "yeok">>
dongdaemun == <<"dong", "dae", "mun">>
sicheong == <<"si", "cheong">>
gangnam == <<"gang", "nam">>
sangseon == <<"sang", "seon">>
haseon == <<"ha", "seon">>

\* identifying values of source rows: weekday, line, station number, station
\* name, direction
Stations ==
    << <<pyeongil, line1, <<"1", "5", "0">>, seoulyeok, sangseon>>,
       <<pyeongil, line1, <<"1", "5", "5">>, dongdaemun, haseon>>,
       <<toyoil, line2, <<"2", "0", "1">>, sicheong, sangseon>>,
       <<pyeongil, line1, <<"1", "5", "0">>, seoulyeok, haseon>>,
       <<iryoil, line2, <<"2", "2", "2">>, gangnam, haseon>> >>

IdCells(r) == [i \in 1..5 |-> Str(Stations[r][i])]

\* header labels of time columns, as the source files write them, and two a
\* malformed header can hold: an unmarked "07:30" and a padded repeat
TimeLabels ==
    { <<"5", "si", "3", "0", "bun">>,
      <<"1", "0", "si", "0", "0", "bun">>,
      <<"2", "3", "si", "3", "0", "bun">>,
      <<"0", "0", "si", "0", "0", "bun">>,
      <<"0", "7", ":", "3", "0">>,
      <<" ", "5", "si", "3", "0", "bun">> }

MarkedLabels ==
    << <<"5", "si", "3", "0", "bun">>,
       <<"1", "0", "si", "0", "0", "bun">>,
       <<"0", "0", "si", "0", "0", "bun">>,
       <<"2", "3", "si", "3", "0", "bun">> >>

\* the five leading headers: as expected, padded, with a foreign first name,
\* and with a first name that carries the hour marker
IdHeaders ==
    { expected_cols,
      [expected_cols EXCEPT ![1] = <<" ">> \o col_yoilgubun \o <<" ">>],
      [expected_cols EXCEPT ![1] = <<"x">>],
      [expected_cols EXCEPT ![1] = <<"yo", "il", "si">>] }

\* texts of congestion cells: blank, whitespace, text, a padded numeral, a
\* negative numeral
CellTexts ==
    { <<>>, <<" ", " ">>, <<"x">>, <<" ", "4", "5", " ">>, <<"-", "3">> }

SeqsOf(S, n) == [1..n -> S]

Distinct(s) == \A i, j \in 1..Len(s) : s[i] = s[j] => i = j

\* files whose cell texts vary, under a well-formed header
CellFiles ==
    { [columns |-> expected_cols \o SubSeq(MarkedLabels, 1, T),
       rows |-> [r \in 1..R |-> IdCells(r) \o [j \in 1..T |-> Str(cells[r][j])]]] :
        <<R, T, cells>> \in
          UNION { UNION { {<<R0, T0, c>> : c \in SeqsOf(SeqsOf(CellTexts, T0), R0)} :
                          T0 \in {t \in 0..MaxTimeCols : R0 * t <= MaxCells} } :
                  R0 \in 0..MaxRows } }

\* files whose headers vary (pd.read_csv never returns a name twice)
HeaderFiles ==
    { [columns |-> ids \o labels,
       rows |-> [r \in 1..R |->
                   IdCells(r) \o [j \in 1..Len(labels) |-> Str(<<" ">> \o NatText(10 * r + j))]]] :
        <<ids, labels, R>> \in
          { <<i, l, R0>> \in
              IdHeaders \X (UNION {SeqsOf(TimeLabels, T) : T \in 0..MaxTimeCols})
                \X (0..MaxRows) : Distinct(l) } }

\* files of fewer than five columns
NarrowFiles ==
    { [columns |-> SubSeq(expected_cols, 1, n),
       rows |-> [r \in 1..R |-> SubSeq(IdCells(r), 1, n)]] :
        <<n, R>> \in (0..4) \X (0..MaxRows) }

Files == CellFiles \cup HeaderFiles \cup NarrowFiles

\* time columns of the tables the queries run on: the source's own
\* single-digit hour, both ends of the morning period, the last slot
QueryLabels ==
    << <<"5", "si", "3", "0", "bun">>,
       <<"0", "6", "si", "0", "0", "bun">>,
       <<"1", "0", "si", "0", "0", "bun">>,
       <<"0", "0", "si", "3", "0", "bun">> >>

\* the strictly increasing index sequences of at most k of 1..n
Picks(n, k) ==
    UNION { {p \in SeqsOf(1..n, m) : \A i \in 1..(m - 1) : p[i] < p[i + 1]} : m \in 0..k }

\* a table as load_data returns it: expected header, numeric congestion cells
WideTable(rowpick, colpick, cell(_, _)) ==
    [columns |-> expected_cols \o [j \in 1..Len(colpick) |-> QueryLabels[colpick[j]]],
     rows |-> [r \in 1..Len(rowpick) |->
                 IdCells(rowpick[r]) \o [j \in 1..Len(colpick) |-> Num(cell(r, j))]]]

NoTable == [columns |-> <<>>, rows |-> <<>>]
NoCall == [op |-> "none", table |-> "none", n |-> 0, by |-> "none", fs |-> <<>>]

(***************************************************************************)
(* The loading part of the script: app.py load_all_data                    *)
(***************************************************************************)
InitLoad ==
    /\ pc = "read"
    /\ file \in Files
    /\ df_wide = NoTable
    /\ df_long = <<>>
    /\ err = "none"
    /\ filters = <<>>
    /\ df_filtered = <<>>
    /\ call = NoCall
    /\ result = <<>>

LoadData ==
    /\ pc = "read"
    /\ LET r == load_data(file)
       IN  IF r.ok
           THEN pc' = "wide" /\ df_wide' = r.df /\ err' = err
           ELSE pc' = "load_failed" /\ df_wide' = df_wide /\ err' = r.error
    /\ UNCHANGED <<file, df_long, filters, df_filtered, call, result>>

ToLongFormat ==
    /\ pc = "wide"
    /\ LET r == to_long_format(df_wide)
       IN  /\ df_wide' = r.arg
           /\ IF r.ok
              THEN pc' = "long" /\ df_long' = r.df /\ err' = err
              ELSE pc' = "long_failed" /\ df_long' = df_long /\ err' = r.error
    /\ UNCHANGED <<file, filters, df_filtered, call, result>>

NextLoad == LoadData \/ ToLongFormat

SpecLoad == InitLoad /\ [][NextLoad]_vars

(***************************************************************************)
(* aggregations.py: constants and apply_filters                            *)
(*                                                                         *)
(* A value of the filter dictionary is a list of texts, one text, or is    *)
(* absent.  A table of the query layer is a sequence of records with the   *)
(* fields yoil, hoseon, yeokbeonho, yeokmyeong, banghyang, sigan and       *)
(* honjapdo (weekday, line, station number, station name, direction, time  *)
(* slot, congestion).                                                      *)
(***************************************************************************)
Absent == [k |-> "absent", v |-> <<>>]
List(vs) == [k |-> "list", v |-> vs]
Scalar(t) == [k |-> "str", v |-> <<t>>]

chulgeun == <<"chul", "geun">>
jeomsim == <<"jeom", "sim">>
toegeun == <<"toe", "geun">>
simya == <<"sim", "ya">>

TIME_PERIODS ==
    [p \in {chulgeun, jeomsim, toegeun, simya} |->
       CASE p = chulgeun -> << <<"0", "6", ":", "0", "0">>, <<"1", "0", ":", "0", "0">> >>
         [] p = jeomsim -> << <<"1", "1", ":", "0", "0">>, <<"1", "4", ":", "0", "0">> >>
         [] p = toegeun -> << <<"1", "7", ":", "0", "0">>, <<"2", "1", ":", "0", "0">> >>
         [] p = simya -> << <<"2", "2", ":", "0", "0">>, <<"2", "4", ":", "3", "0">> >>]

\* `key in filters and filters[key]`: present and truthy
active(f) ==
    \/ f.k = "list" /\ f.v # <<>>
    \/ f.k = "str" /\ f.v[1] # <<>>

\* df_filtered[df_filtered[key].isin(value)] or df_filtered[df_filtered[key] == value]
filter_dimension(rows, key, f) ==
    IF active(f)
    THEN IF f.k = "list"
         THEN SelectSeq(rows, LAMBDA r : InSeq(r[key], f.v))
         ELSE SelectSeq(rows, LAMBDA r : r[key] = f.v[1])
    ELSE rows

\* a period filter that leaves the end of the period out
filter_period_open(rows, f) ==
    IF active(f) /\ f.v[1] \in DOMAIN TIME_PERIODS
    THEN LET start_time == TIME_PERIODS[f.v[1]][1]
             end_time == TIME_PERIODS[f.v[1]][2]
         IN  SelectSeq(rows, LAMBDA r : StrLeq(start_time, r.sigan)
                                         /\ StrLess(r.sigan, end_time))
    ELSE rows

\* the period filter: string comparison with both ends
filter_period(rows, f) ==
    IF active(f) /\ f.v[1] \in DOMAIN TIME_PERIODS
    THEN LET start_time == TIME_PERIODS[f.v[1]][1]
             end_time == TIME_PERIODS[f.v[1]][2]
         IN  SelectSeq(rows, LAMBDA r : StrLeq(start_time, r.sigan)
                                         /\ StrLeq(r.sigan, end_time))
    ELSE rows

\* a direction filter that reads the unfiltered table again
filter_direction_of_input(df, rows, f) ==
    IF active(f) THEN filter_dimension(df, "banghyang", f) ELSE rows

\* the direction filter, on the rows the earlier filters left
filter_direction(df, rows, f) == filter_dimension(rows, "banghyang", f)

apply_filters(df, fs) ==
    LET d0 == df
        d1 == filter_dimension(d0, "yoil", fs.yoil)
        d2 == filter_dimension(d1, "hoseon", fs.hoseon)
        d3 == filter_dimension(d2, "yeokmyeong", fs.yeokmyeong)
        d4 == filter_direction(df, d3, fs.banghyang)
    IN  filter_period(d4, fs.sigandae)

(***************************************************************************)
(* aggregations.py: numbers                                                *)
(*                                                                         *)
(* Congestion values are counts of hundredths.  A mean is the fraction      *)
(* num/den of whole units, and a value rounded to one decimal is written   *)
(* as its count of tenths (round(45.25, 1) = 45.2 is 452), halves going to *)
(* the even tenth.                                                         *)
(***************************************************************************)
Frac(num, den) == [num |-> num, den |-> den]

FracLeq(a, b) == a.num * b.den <= b.num * a.den

FracLess(a, b) == a.num * b.den < b.num * a.den

\* round(num/den, 1) in tenths, den > 0
Round1(num, den) ==
    LET q == (10 * num) \div den
        rem == (10 * num) % den
    IN  IF 2 * rem > den THEN q + 1
        ELSE IF 2 * rem < den THEN q
        ELSE IF q % 2 = 0 THEN q ELSE q + 1

RoundFrac(f) == Round1(f.num, f.den)

Column(rows) == [k \in 1..Len(rows) |-> rows[k].honjapdo]

\* Series.max()
SeriesMax(xs) == CHOOSE m \in {xs[k] : k \in 1..Len(xs)} : \A k \in 1..Len(xs) : xs[k] <= m

\* Series.min()
SeriesMin(xs) == CHOOSE m \in {xs[k] : k \in 1..Len(xs)} : \A k \in 1..Len(xs) : m <= xs[k]

\* Series.mean()
SeriesMean(xs) == Frac(SeqSum(xs), Unit * Len(xs))

\* the last position of the maximum
idxmax_last(xs) ==
    CHOOSE k \in 1..Len(xs) :
        /\ xs[k] = SeriesMax(xs)
        /\ \A m \in (k + 1)..Len(xs) : xs[m] # SeriesMax(xs)

\* Series.idxmax(): the first position of the maximum
idxmax(xs) ==
    CHOOSE k \in 1..Len(xs) :
        /\ xs[k] = SeriesMax(xs)
        /\ \A m \in 1..(k - 1) : xs[m] # SeriesMax(xs)

\* the values of a set of texts (or of tuples of texts) in ascending order
RECURSIVE SortedKeys(_)
SortedKeys(S) ==
    IF S = {} THEN <<>>
    ELSE LET least == CHOOSE x \in S : \A y \in S : x = y \/ KeyLess(x, y)
         IN  <<least>> \o SortedKeys(S \ {least})

\* the rearrangements of a sequence
Permutations_of(s) ==
    { [k \in 1..Len(s) |-> s[p[k]]] :
        p \in {q \in [1..Len(s) -> 1..Len(s)] : \A i, j \in 1..Len(s) : q[i] = q[j] => i = j} }

\* DataFrame.head(n)
head(s, n) ==
    IF n >= 0 THEN SubSeq(s, 1, IF n < Len(s) THEN n ELSE Len(s))
    ELSE SubSeq(s, 1, IF Len(s) + n > 0 THEN Len(s) + n ELSE 0)

(***************************************************************************)
(* aggregations.py: compute_kpis                                           *)
(***************************************************************************)
NOT_AVAILABLE == <<"N", "/", "A">>

kpis_of(df_f, total_records) ==
    IF Len(df_f) = 0
    THEN [peak_congestion |-> 0, peak_time |-> NOT_AVAILABLE,
          avg_congestion |-> 0, total_records |-> 0]
    ELSE LET peak_idx == idxmax(Column(df_f))
         IN  [peak_congestion |-> Round1(df_f[peak_idx].honjapdo, Unit),
              peak_time |-> df_f[peak_idx].sigan,
              avg_congestion |-> RoundFrac(SeriesMean(Column(df_f))),
              total_records |-> total_records]

\* KPIs that count the rows of the unfiltered table
compute_kpis_counts_input(df, fs) == kpis_of(apply_filters(df, fs), Len(df))

compute_kpis(df, fs) ==
    kpis_of(apply_filters(df, fs), Len(apply_filters(df, fs)))

(***************************************************************************)
(* aggregations.py: top_n_stations                                         *)
(***************************************************************************)
\* df.groupby(['yeokmyeong', 'hoseon'])['honjapdo'].max() or .mean(), then
\* reset_index(): one row per group, the groups in ascending key order
station_groups(df, by) ==
    LET keys == SortedKeys({<<df[k].yeokmyeong, df[k].hoseon>> : k \in 1..Len(df)})
        of(key) == Column(SelectSeq(df, LAMBDA r : <<r.yeokmyeong, r.hoseon>> = key))
    IN  [g \in 1..Len(keys) |->
           [yeokmyeong |-> keys[g][1], hoseon |-> keys[g][2],
            honjapdo |-> IF by = "max" THEN Frac(SeriesMax(of(keys[g])), Unit)
                         ELSE SeriesMean(of(keys[g]))]]

\* an ascending sort of the groups
ascending_orders(agg) ==
    { s \in Permutations_of(agg) :
        \A k \in 1..(Len(s) - 1) : FracLeq(s[k].honjapdo, s[k + 1].honjapdo) }

\* sort_values('honjapdo', ascending=False): the default sort is not a
\* stable one, so equal values can come out in any order
descending_orders(agg) ==
    { s \in Permutations_of(agg) :
        \A k \in 1..(Len(s) - 1) : FracLeq(s[k + 1].honjapdo, s[k].honjapdo) }

\* the tables top_n_stations can return
top_n_stations(df, n, by) ==
    IF Len(df) = 0 THEN {<<>>}
    ELSE { LET top_df == head(agg_df, n)
           IN  [k \in 1..Len(top_df) |->
                  [sunwi |-> k,
                   yeokmyeong |-> top_df[k].yeokmyeong,
                   hoseon |-> top_df[k].hoseon,
                   honjapdo |-> RoundFrac(top_df[k].honjapdo)]] :
             agg_df \in descending_orders(station_groups(df, by)) }

(***************************************************************************)
(* aggregations.py: aggregate_for_line, compare_by_direction               *)
(***************************************************************************)
\* df.groupby(key).agg(mean, max) with the peak time of each group: the
\* time of the first row of the group, in df's order, that holds the maximum
grouped_peaks(df, key) ==
    LET keys == SortedKeys({<<df[k][key]>> : k \in 1..Len(df)})
        of(v) == SelectSeq(df, LAMBDA r : r[key] = v)
    IN  [g \in 1..Len(keys) |->
           LET group_df == of(keys[g][1])
               peak_idx == idxmax(Column(group_df))
           IN  [name |-> keys[g][1],
                pyeonggyun_honjapdo |-> RoundFrac(SeriesMean(Column(group_df))),
                choedae_honjapdo |-> Round1(SeriesMax(Column(group_df)), Unit),
                pikeu_sigan |-> group_df[peak_idx].sigan]]

\* the tables aggregate_for_line can return: the lines by descending rounded
\* mean, equal means in any order
aggregate_for_line(df) ==
    IF Len(df) = 0 THEN {<<>>}
    ELSE { s \in Permutations_of(grouped_peaks(df, "hoseon")) :
             \A k \in 1..(Len(s) - 1) :
                 s[k + 1].pyeonggyun_honjapdo <= s[k].pyeonggyun_honjapdo }

compare_by_direction(df) ==
    IF Len(df) = 0 THEN <<>> ELSE grouped_peaks(df, "banghyang")

(***************************************************************************)
(* aggregations.py: aggregate_for_heatmap                                  *)
(***************************************************************************)
\* pivot_table(index='sigan', columns='hoseon', values='honjapdo',
\* aggfunc='mean'), sorted by index and rounded; a slot a line has no row
\* for is missing
aggregate_for_heatmap(df) ==
    IF Len(df) = 0 THEN [index |-> <<>>, columns |-> <<>>, cells |-> <<>>]
    ELSE LET index == SortedKeys({<<df[k].sigan>> : k \in 1..Len(df)})
             columns == SortedKeys({<<df[k].hoseon>> : k \in 1..Len(df)})
             of(i, j) == SelectSeq(df, LAMBDA r : r.sigan = index[i][1]
                                                  /\ r.hoseon = columns[j][1])
         IN  [index |-> [i \in 1..Len(index) |-> index[i][1]],
              columns |-> [j \in 1..Len(columns) |-> columns[j][1]],
              cells |-> [i \in 1..Len(index) |->
                           [j \in 1..Len(columns) |->
                              IF Len(of(i, j)) = 0 THEN NaN
                              ELSE Num(RoundFrac(SeriesMean(Column(of(i, j)))))]]]

(***************************************************************************)
(* aggregations.py: compare_by_weekday                                     *)
(***************************************************************************)
jumal == <<"ju", "mal">>

WEEKDAY_CLASSIFICATION ==
    << [classification |-> pyeongil, days |-> <<pyeongil>>],
       [classification |-> jumal, days |-> <<toyoil, iryoil>>] >>

\* a comparison that emits every category, a zero row for one without rows
compare_by_weekday_every_category(df) ==
    LET filtered_df(c) == SelectSeq(df, LAMBDA r : InSeq(r.yoil, c.days))
    IN  [k \in 1..Len(WEEKDAY_CLASSIFICATION) |->
           LET c == WEEKDAY_CLASSIFICATION[k]
           IN  IF Len(filtered_df(c)) = 0
               THEN [gubun |-> c.classification, pyeonggyun_honjapdo |-> 0,
                     choedae_honjapdo |-> 0]
               ELSE [gubun |-> c.classification,
                     pyeonggyun_honjapdo |-> RoundFrac(SeriesMean(Column(filtered_df(c)))),
                     choedae_honjapdo |-> Round1(SeriesMax(Column(filtered_df(c))), Unit)]]

compare_by_weekday(df) ==
    IF Len(df) = 0 THEN <<>>
    ELSE LET filtered_df(c) == SelectSeq(df, LAMBDA r : InSeq(r.yoil, c.days))
             kept == SelectSeq(WEEKDAY_CLASSIFICATION, LAMBDA c : Len(filtered_df(c)) > 0)
         IN  [k \in 1..Len(kept) |->
                [gubun |-> kept[k].classification,
                 pyeonggyun_honjapdo |-> RoundFrac(SeriesMean(Column(filtered_df(kept[k])))),
                 choedae_honjapdo |-> Round1(SeriesMax(Column(filtered_df(kept[k]))), Unit)]]

(***************************************************************************)
(* aggregations.py: get_congestion_stats                                   *)
(***************************************************************************)
\* the values in ascending order
RECURSIVE SortedValues(_)
SortedValues(xs) ==
    IF xs = <<>> THEN <<>>
    ELSE LET k == CHOOSE i \in 1..Len(xs) : \A j \in 1..Len(xs) : xs[i] <= xs[j]
         IN  <<xs[k]>> \o SortedValues([i \in 1..(Len(xs) - 1) |->
                                           IF i < k THEN xs[i] ELSE xs[i + 1]])

\* Series.quantile(q4 / 4): linear interpolation between order statistics
quantile(xs, q4) ==
    LET sorted == SortedValues(xs)
        lo == (q4 * (Len(xs) - 1)) \div 4
        rem == (q4 * (Len(xs) - 1)) % 4
        hi == IF rem = 0 THEN lo ELSE lo + 1
    IN  Frac(sorted[lo + 1] * (4 - rem) + sorted[hi + 1] * rem, 4 * Unit)

\* round(Series.std(), 1): the sample deviation (N - 1), to the nearest
\* tenth; missing for a single value.  The deviation of the values is that
\* of their distances from the least one.
std_rounded(xs) ==
    LET n == Len(xs)
        ys == [k \in 1..n |-> xs[k] - SeriesMin(xs)]
        squares == SeqSum([k \in 1..n |-> ys[k] * ys[k]])
        a == n * squares - SeqSum(ys) * SeqSum(ys)
        b == n * (n - 1)
        scale == (Unit * Unit) \div 400
    IN  IF n < 2 THEN NaN
        ELSE Num(CHOOSE t \in 0..((10 * (SeriesMax(xs) - SeriesMin(xs))) \div Unit + 1) :
                   /\ (2 * t - 1) * (2 * t - 1) * b * scale <= a \/ t = 0
                   /\ a < (2 * t + 1) * (2 * t + 1) * b * scale)

get_congestion_stats(df) ==
    IF Len(df) = 0
    THEN [mean |-> 0, std |-> Num(0), min |-> 0, max |-> 0, q25 |-> 0, q50 |-> 0, q75 |-> 0]
    ELSE LET congestion_series == Column(df)
         IN  [mean |-> RoundFrac(SeriesMean(congestion_series)),
              std |-> std_rounded(congestion_series),
              min |-> Round1(SeriesMin(congestion_series), Unit),
              max |-> Round1(SeriesMax(congestion_series), Unit),
              q25 |-> RoundFrac(quantile(congestion_series, 1)),
              q50 |-> RoundFrac(quantile(congestion_series, 2)),
              q75 |-> RoundFrac(quantile(congestion_series, 3))]

(***************************************************************************)
(* aggregations.py: _time_to_minutes                                       *)
(***************************************************************************)
\* int(text): surrounding whitespace and a minus sign are accepted, anything
\* else than digits is a ValueError
int(s) ==
    LET body == strip(s)
    IN  IF AllDigits(body) THEN [ok |-> TRUE, n |-> NumVal(body)]
        ELSE IF body # <<>> /\ Head(body) = "-" /\ AllDigits(Tail(body))
             THEN [ok |-> TRUE, n |-> 0 - NumVal(Tail(body))]
        ELSE [ok |-> FALSE, n |-> 0]

\* hours * 60 + minutes of 'HH:MM'; 0 when the text does not unpack into two
\* integers (the bare except)
_time_to_minutes(time_str) ==
    LET parts == split(time_str, ":")
    IN  IF Len(parts) = 2 /\ int(parts[1]).ok /\ int(parts[2]).ok
        THEN int(parts[1]).n * 60 + int(parts[2]).n
        ELSE 0

(***************************************************************************)
(* What a query leaves in the table it was given.  apply_filters works on  *)
(* df.copy() and every selection, groupby, sort and head of the query      *)
(* layer builds a new table; no function assigns into its argument.        *)
(***************************************************************************)
\* a filter that drops the rows from the caller's table itself
input_after_in_place(op, df, ret) == IF op = "apply_filters" THEN ret ELSE df

\* the caller's table once op(df, ...) has returned ret
input_after(op, df, ret) == df

(***************************************************************************)
(* Filtering: apply_filters on the normalised table and on its own result  *)
(***************************************************************************)
MaxKeys == 2        \* keys of a filter dictionary

YoilOptions ==
    {List(<<>>), List(<<pyeongil>>), List(<<toyoil, iryoil>>), Scalar(toyoil)}
HoseonOptions == {List(<<line1>>), Scalar(line2), Scalar(<<>>)}
YeokmyeongOptions ==
    {List(<<seoulyeok>>), List(<<seoulyeok, dongdaemun>>), Scalar(sicheong)}
BanghyangOptions == {List(<<sangseon>>), Scalar(haseon), List(<<>>)}
SigandaeOptions ==
    {Scalar(chulgeun), Scalar(simya), Scalar(<<"x">>), Scalar(<<>>)}

FilterKeys == {"yoil", "hoseon", "yeokmyeong", "banghyang", "sigandae"}

KeysOf(fs) == {key \in FilterKeys : fs[key].k # "absent"}

NoFilters == [key \in FilterKeys |-> Absent]

FilterSpecs ==
    { fs \in [yoil : YoilOptions \cup {Absent},
              hoseon : HoseonOptions \cup {Absent},
              yeokmyeong : YeokmyeongOptions \cup {Absent},
              banghyang : BanghyangOptions \cup {Absent},
              sigandae : SigandaeOptions \cup {Absent}] :
        Cardinality(KeysOf(fs)) <= MaxKeys }

SingleKeyFilters == {fs \in FilterSpecs : Cardinality(KeysOf(fs)) <= 1}

\* tables whose rows and time columns vary, each cell holding one value
FilterWides ==
    { WideTable(rp, cp, LAMBDA r, j : 50 * Unit) :
        <<rp, cp>> \in Picks(Len(Stations), MaxRows) \X Picks(Len(QueryLabels), MaxTimeCols) }

InitFilter ==
    /\ pc = "wide"
    /\ file = NoTable
    /\ df_wide \in FilterWides
    /\ df_long = <<>>
    /\ err = "none"
    /\ filters = <<>>
    /\ df_filtered = <<>>
    /\ call = NoCall
    /\ result = <<>>

\* apply_filters(df_long, fs)
ApplyFilters ==
    /\ pc = "long"
    /\ \E fs \in FilterSpecs :
          /\ filters' = <<fs>>
          /\ df_filtered' = apply_filters(df_long, fs)
          /\ df_long' = input_after("apply_filters", df_long, apply_filters(df_long, fs))
    /\ pc' = "filtered"
    /\ UNCHANGED <<file, df_wide, err, call, result>>

\* apply_filters(df_filtered, gs): a second filter on the first one's result
RefineFilters ==
    /\ pc = "filtered"
    /\ filters[1] \in SingleKeyFilters
    /\ \E gs \in SingleKeyFilters :
          /\ filters' = Append(filters, gs)
          \* the first result is the second call's input; the name is rebound
          /\ df_filtered' = apply_filters(df_filtered, gs)
    /\ pc' = "refined"
    /\ UNCHANGED <<file, df_wide, df_long, err, call, result>>

NextFilter == ToLongFormat \/ ApplyFilters \/ RefineFilters

SpecFilter == InitFilter /\ [][NextFilter]_vars

(***************************************************************************)
(* Properties of apply_filters                                             *)
(***************************************************************************)
\* a key that is present with a non-empty value
Constrains(v) ==
    \/ v.k = "list" /\ Len(v.v) > 0
    \/ v.k = "str" /\ Len(v.v[1]) > 0

\* the row's value is in the given list, or equal to the given text
Admits(v, x) ==
    IF v.k = "list" THEN \E i \in 1..Len(v.v) : v.v[i] = x ELSE v.v[1] = x

KnownPeriod(v) == Constrains(v) /\ v.v[1] \in {chulgeun, jeomsim, toegeun, simya}

Keeps(fs, row) ==
    /\ \A key \in {"yoil", "hoseon", "yeokmyeong", "banghyang"} :
          Constrains(fs[key]) => Admits(fs[key], row[key])
    /\ KnownPeriod(fs.sigandae) =>
          /\ StrLeq(TIME_PERIODS[fs.sigandae.v[1]][1], row.sigan)
          /\ StrLeq(row.sigan, TIME_PERIODS[fs.sigandae.v[1]][2])

\* C5: apply_filters returns exactly the rows of its input, in the input's
\* order, that satisfy every constraint present in the filter dictionary;
\* absent keys, empty values and unknown period names constrain nothing
C5_FilterIsConjunction ==
    pc = "filtered" =>
        df_filtered = SelectSeq(df_long, LAMBDA row : Keeps(filters[1], row))

C5_Witness ==
    /\ pc = "filtered"
    /\ KnownPeriod(filters[1].sigandae)
    /\ Constrains(filters[1].hoseon)
    /\ Len(df_filtered) < Len(df_long)
    /\ \E k \in 1..Len(df_filtered) :
          df_filtered[k].sigan = TIME_PERIODS[filters[1].sigandae.v[1]][2]

\* the dictionary holding the keys of both
Merged(fs, gs) ==
    [key \in FilterKeys |-> IF fs[key].k # "absent" THEN fs[key] ELSE gs[key]]

\* C6: filtering by one dimension and then by another gives the table that
\* one call with both keys gives, in either order of the two
C6_FiltersCommute ==
    (pc = "refined" /\ KeysOf(filters[1]) \cap KeysOf(filters[2]) = {}) =>
        /\ df_filtered = apply_filters(df_long, Merged(filters[1], filters[2]))
        /\ df_filtered = apply_filters(apply_filters(df_long, filters[2]), filters[1])

C6_Witness ==
    /\ pc = "refined"
    /\ Constrains(filters[1].hoseon)
    /\ Constrains(filters[2].banghyang)
    /\ Len(df_filtered) > 0
    /\ Len(df_filtered) < Len(apply_filters(df_long, filters[1]))
    /\ Len(df_filtered) < Len(apply_filters(df_long, filters[2]))

(***************************************************************************)
(* The dashboard: app.py filters the normalised table and queries it       *)
(***************************************************************************)
MaxN == 2           \* the n of top_n_stations

\* congestion values of the queried tables: 50 and 90.25
Values == {5000, 9025}

With(fs, key, v) == [fs EXCEPT ![key] = v]

\* filter dictionaries as the sidebar builds them
DashboardFilters ==
    { NoFilters,
      With(NoFilters, "yoil", List(<<pyeongil>>)),
      With(With(NoFilters, "yoil", List(<<toyoil, iryoil>>)), "hoseon", List(<<line2>>)),
      With(With(NoFilters, "hoseon", List(<<line1>>)), "banghyang", List(<<sangseon>>)),
      With(NoFilters, "yeokmyeong", List(<<seoulyeok>>)),
      With(NoFilters, "sigandae", Scalar(chulgeun)),
      With(With(NoFilters, "yoil", List(<<pyeongil>>)), "sigandae", Scalar(simya)),
      With(With(NoFilters, "yeokmyeong", List(<<gangnam>>)), "hoseon", List(<<line1>>)) }

RankBy == {"max", "avg", "median"}

\* tables whose rows, time columns and congestion values vary
QueryWides ==
    { WideTable(w[1], w[2], LAMBDA r, j : w[3][r][j]) :
        w \in UNION { UNION { {<<rp, cp, c>> : c \in SeqsOf(SeqsOf(Values, Len(cp)), Len(rp))} :
                               cp \in {q \in Picks(Len(QueryLabels), MaxTimeCols) :
                                          Len(rp) * Len(q) <= MaxCells} } :
                       rp \in Picks(Len(Stations), MaxRows) } }

InitQuery ==
    /\ pc = "wide"
    /\ file = NoTable
    /\ df_wide \in QueryWides
    /\ df_long = <<>>
    /\ err = "none"
    /\ filters = <<>>
    /\ df_filtered = <<>>
    /\ call = NoCall
    /\ result = <<>>

\* the table the queries of this point of the script are given
Current == IF pc = "long" THEN df_long ELSE df_filtered

CurrentName == IF pc = "long" THEN "df_long" ELSE "df_filtered"

Call(op, n, by, fs) == [op |-> op, table |-> CurrentName, n |-> n, by |-> by, fs |-> fs]

Returned(v) == [raised |-> FALSE, value |-> v]

\* the query ran on the current table, which it leaves as input_after says
Queried(op, ret) ==
    /\ result' = Returned(ret)
    /\ IF pc = "long"
       THEN df_long' = input_after(op, df_long, ret) /\ df_filtered' = df_filtered
       ELSE df_filtered' = input_after(op, df_filtered, ret) /\ df_long' = df_long
    /\ UNCHANGED <<pc, file, df_wide, err, filters>>

\* app.py: filters = {...}; df_filtered = apply_filters(df_long, filters)
SidebarFilters ==
    /\ pc \in {"long", "filtered"}
    /\ call = NoCall
    /\ \E fs \in DashboardFilters :
          /\ filters' = <<fs>>
          /\ df_filtered' = apply_filters(df_long, fs)
          /\ df_long' = input_after("apply_filters", df_long, apply_filters(df_long, fs))
    /\ pc' = "filtered"
    /\ UNCHANGED <<file, df_wide, err, call, result>>

\* app.py: kpis = compute_kpis(df_long, filters)
ComputeKpis ==
    /\ pc \in {"long", "filtered"}
    /\ call = NoCall
    /\ \E fs \in (IF pc = "long" THEN DashboardFilters ELSE {filters[1]}) :
          /\ call' = [Call("compute_kpis", 0, "none", fs) EXCEPT !.table = "df_long"]
          /\ result' = Returned(compute_kpis(df_long, fs))
          /\ df_long' = input_after("compute_kpis", df_long, compute_kpis(df_long, fs))
    /\ UNCHANGED <<pc, file, df_wide, err, filters, df_filtered>>

TopNStations ==
    /\ pc \in {"long", "filtered"}
    /\ call = NoCall
    /\ \E n \in 0..MaxN : \E by \in RankBy :
          \E ret \in top_n_stations(Current, n, by) :
              /\ call' = Call("top_n_stations", n, by, NoFilters)
              /\ Queried("top_n_stations", ret)

AggregateForLine ==
    /\ pc \in {"long", "filtered"}
    /\ call = NoCall
    /\ \E ret \in aggregate_for_line(Current) :
          /\ call' = Call("aggregate_for_line", 0, "none", NoFilters)
          /\ Queried("aggregate_for_line", ret)

AggregateForHeatmap ==
    /\ pc \in {"long", "filtered"}
    /\ call = NoCall
    /\ call' = Call("aggregate_for_heatmap", 0, "none", NoFilters)
    /\ Queried("aggregate_for_heatmap", aggregate_for_heatmap(Current))

CompareByWeekday ==
    /\ pc \in {"long", "filtered"}
    /\ call = NoCall
    /\ call' = Call("compare_by_weekday", 0, "none", NoFilters)
    /\ Queried("compare_by_weekday", compare_by_weekday(Current))

CompareByDirection ==
    /\ pc \in {"long", "filtered"}
    /\ call = NoCall
    /\ call' = Call("compare_by_direction", 0, "none", NoFilters)
    /\ Queried("compare_by_direction", compare_by_direction(Current))

GetCongestionStats ==
    /\ pc \in {"long", "filtered"}
    /\ call = NoCall
    /\ call' = Call("get_congestion_stats", 0, "none", NoFilters)
    /\ Queried("get_congestion_stats", get_congestion_stats(Current))

\* the script shows what the query returned and goes on
Show ==
    /\ call # NoCall
    /\ call' = NoCall
    /\ result' = <<>>
    /\ UNCHANGED <<pc, file, df_wide, df_long, err, filters, df_filtered>>

NextQuery ==
    \/ ToLongFormat
    \/ SidebarFilters
    \/ ComputeKpis
    \/ TopNStations
    \/ AggregateForLine
    \/ AggregateForHeatmap
    \/ CompareByWeekday
    \/ CompareByDirection
    \/ GetCongestionStats
    \/ Show

SpecQuery == InitQuery /\ [][NextQuery]_vars

(***************************************************************************)
(* Properties of the queries                                               *)
(***************************************************************************)
\* the table the last query was given
Given == IF call.table = "df_long" THEN df_long ELSE df_filtered

EmptyKpis ==
    [peak_congestion |-> 0, peak_time |-> <<"N", "/", "A">>,
     avg_congestion |-> 0, total_records |-> 0]

Matching == {k \in 1..Len(df_long) : Keeps(call.fs, df_long[k])}

\* C7: compute_kpis returns the zero record with peak_time 'N/A' exactly when
\* no row of the table satisfies the filters, without raising; and
\* total_records is the number of rows that satisfy them
C7_EmptyKpis ==
    call.op = "compute_kpis" =>
        /\ ~result.raised
        /\ (result.value = EmptyKpis) <=> (Matching = {})
        /\ result.value.total_records = Cardinality(Matching)

C7_Witness ==
    /\ call.op = "compute_kpis"
    /\ Len(df_long) > 0
    /\ KeysOf(call.fs) # {}
    /\ result.value = EmptyKpis

C7_WitnessSome ==
    /\ call.op = "compute_kpis"
    /\ result.value.total_records > 0
    /\ result.value.total_records < Len(df_long)

GroupOf(row) == <<row.yeokmyeong, row.hoseon>>

GroupsIn(t) == {GroupOf(t[k]) : k \in 1..Len(t)}

Members(t, g) == {k \in 1..Len(t) : GroupOf(t[k]) = g}

\* a group's maximum, or its mean as the pair <<sum, count>>
RECURSIVE SumOver(_, _)
SumOver(t, K) ==
    IF K = {} THEN 0
    ELSE LET k == CHOOSE x \in K : TRUE IN t[k].honjapdo + SumOver(t, K \ {k})

Reduced(t, g, by) ==
    IF by = "max"
    THEN <<CHOOSE m \in {t[k].honjapdo : k \in Members(t, g)} :
               \A k \in Members(t, g) : t[k].honjapdo <= m, 1>>
    ELSE <<SumOver(t, Members(t, g)), Cardinality(Members(t, g))>>

\* a <= b for pairs <<numerator, denominator>>
AtMost(a, b) == a[1] * b[2] <= b[1] * a[2]

FirstRow(t, g) == CHOOSE k \in Members(t, g) : \A m \in Members(t, g) : k <= m

RankingCase ==
    /\ call.op = "top_n_stations"
    /\ call.by \in {"max", "avg"}
    /\ call.n >= 1
    /\ Len(Given) > 0

\* ranks 1..k for k = min(n, G), one group per rank, reduced values
\* non-increasing by rank and no smaller than that of any group left out
IsRanking(t, ranking, n, by) ==
    LET G == GroupsIn(t)
        k == IF n < Cardinality(G) THEN n ELSE Cardinality(G)
        group(i) == <<ranking[i].yeokmyeong, ranking[i].hoseon>>
    IN  /\ Len(ranking) = k
        /\ \A i \in 1..k : ranking[i].sunwi = i /\ group(i) \in G
        /\ \A i, j \in 1..k : group(i) = group(j) => i = j
        /\ \A i \in 1..(k - 1) : AtMost(Reduced(t, group(i + 1), by), Reduced(t, group(i), by))
        /\ \A g \in G \ {group(i) : i \in 1..k} :
              \A i \in 1..k : AtMost(Reduced(t, g, by), Reduced(t, group(i), by))

\* groups of equal reduced value are ranked in the order of their first rows
TiesInInputOrder(t, ranking, by) ==
    LET group(i) == <<ranking[i].yeokmyeong, ranking[i].hoseon>>
    IN  \A i, j \in 1..Len(ranking) :
            (i < j /\ Reduced(t, group(i), by) = Reduced(t, group(j), by)) =>
                FirstRow(t, group(i)) < FirstRow(t, group(j))

\* C8 as stated: the ranking of top_n_stations, with groups of equal reduced
\* value ranked in the order they appear in the input
C8_RankingTiesInInputOrder ==
    RankingCase =>
        /\ IsRanking(Given, result.value, call.n, call.by)
        /\ TiesInInputOrder(Given, result.value, call.by)

\* C8 amended: for n >= 1 and a non-empty table of G groups, top_n_stations
\* returns k = min(n, G) rows ranked 1..k, reduced congestion non-increasing
\* by rank and no smaller than that of any group left out; the order of
\* groups of equal value is not fixed by the input
C8_Ranking == RankingCase => IsRanking(Given, result.value, call.n, call.by)

C8_Witness ==
    /\ RankingCase
    /\ call.n = 2
    /\ Cardinality(GroupsIn(Given)) = 3
    /\ Len(result.value) = 2
    /\ Reduced(Given, <<result.value[1].yeokmyeong, result.value[1].hoseon>>, call.by)
         = Reduced(Given, <<result.value[2].yeokmyeong, result.value[2].hoseon>>, call.by)
    /\ result.value[1].honjapdo > 500

\* C9: on a non-empty table, a rank_by that is neither 'max' nor 'avg' makes
\* top_n_stations raise
C9_InvalidRankByRaises ==
    (call.op = "top_n_stations" /\ call.by \notin {"max", "avg"} /\ Len(Given) > 0) =>
        result.raised

CategoryDays(name) ==
    IF name = pyeongil THEN {pyeongil}
    ELSE IF name = jumal THEN {toyoil, iryoil}
    ELSE {}

\* the rows of table t whose weekday belongs to the category
RowsOf(t, name) == {k \in 1..Len(t) : t[k].yoil \in CategoryDays(name)}

\* the largest congestion, in hundredths, among the rows K of t
MaxOver(t, K) ==
    CHOOSE m \in {t[k].honjapdo : k \in K} : \A k \in K : t[k].honjapdo <= m

Emitted(name) == {i \in 1..Len(result.value) : result.value[i].gubun = name}

\* one row per category that has rows, none for one that has not, and no
\* row of any other name
EmitsExactlyTheCategoriesWithRows ==
    /\ ~result.raised
    /\ \A i \in 1..Len(result.value) : result.value[i].gubun \in {pyeongil, jumal}
    /\ \A name \in {pyeongil, jumal} :
          Cardinality(Emitted(name)) = IF RowsOf(Given, name) # {} THEN 1 ELSE 0

\* C11 as stated: compare_by_weekday emits one row for a category
\* (pyeongil, or jumal covering toyoil and iryoil) iff some input row's
\* weekday belongs to it, and that row's max equals the maximum congestion
\* over exactly those rows; in particular only-pyeongil input yields exactly
\* one row, for pyeongil
C11_WeekdayMaxIsExact ==
    call.op = "compare_by_weekday" =>
        /\ EmitsExactlyTheCategoriesWithRows
        /\ \A name \in {pyeongil, jumal} : \A i \in Emitted(name) :
              (Unit \div 10) * result.value[i].choedae_honjapdo
                  = MaxOver(Given, RowsOf(Given, name))

\* C11 amended: the same rows are emitted, and each row's max is the maximum
\* congestion over the category's rows rounded to one decimal (halves to
\* the even tenth), so it equals the maximum only when that has at most one
\* decimal
C11_WeekdayMaxIsRounded ==
    call.op = "compare_by_weekday" =>
        /\ EmitsExactlyTheCategoriesWithRows
        /\ \A name \in {pyeongil, jumal} : \A i \in Emitted(name) :
              result.value[i].choedae_honjapdo
                  = Round1(MaxOver(Given, RowsOf(Given, name)), Unit)

\* only pyeongil rows, of different congestion, and one row returned
C11_Witness ==
    /\ call.op = "compare_by_weekday"
    /\ Len(Given) >= 2
    /\ RowsOf(Given, pyeongil) = 1..Len(Given)
    /\ \E j, k \in 1..Len(Given) : Given[j].honjapdo < Given[k].honjapdo
    /\ Len(result.value) = 1
    /\ result.value[1].gubun = pyeongil

\* the first of the rows K of t, in t's order, that holds their maximum
FirstAtMax(t, K) ==
    CHOOSE k \in K :
        /\ t[k].honjapdo = MaxOver(t, K)
        /\ \A m \in K : t[m].honjapdo = MaxOver(t, K) => k <= m

\* the rows of t a reported group covers
LineRows(t, name) == {k \in 1..Len(t) : t[k].hoseon = name}

DirectionRows(t, name) == {k \in 1..Len(t) : t[k].banghyang = name}

\* what the last query reports as peaks: the rows considered, the peak value
\* in tenths and the peak time, one entry per reported peak
ReportedPeaks ==
    IF call.op = "compute_kpis" /\ Matching # {}
    THEN {[rows |-> Matching, table |-> df_long,
           peak |-> result.value.peak_congestion, time |-> result.value.peak_time]}
    ELSE IF call.op = "aggregate_for_line"
    THEN {[rows |-> LineRows(Given, result.value[i].name), table |-> Given,
           peak |-> result.value[i].choedae_honjapdo,
           time |-> result.value[i].pikeu_sigan] : i \in 1..Len(result.value)}
    ELSE IF call.op = "compare_by_direction"
    THEN {[rows |-> DirectionRows(Given, result.value[i].name), table |-> Given,
           peak |-> result.value[i].choedae_honjapdo,
           time |-> result.value[i].pikeu_sigan] : i \in 1..Len(result.value)}
    ELSE {}

\* every line, and every direction, of the table has its reported peak
EveryGroupReported ==
    /\ call.op = "aggregate_for_line" =>
          {result.value[i].name : i \in 1..Len(result.value)}
              = {Given[k].hoseon : k \in 1..Len(Given)}
    /\ call.op = "compare_by_direction" =>
          {result.value[i].name : i \in 1..Len(result.value)}
              = {Given[k].banghyang : k \in 1..Len(Given)}

PeakTimeIsFirstAtMax ==
    \A p \in ReportedPeaks :
        /\ p.rows # {}
        /\ p.time = p.table[FirstAtMax(p.table, p.rows)].sigan

\* C12 as stated: in compute_kpis (over the filtered rows),
\* aggregate_for_line (per line) and compare_by_direction (per direction) the
\* reported peak value equals the maximum congestion of the rows considered,
\* and peak_time is the time_slot of the first of those rows, in the table's
\* row order, that attains the maximum, ties included
C12_PeakIsExactAndFirst ==
    /\ EveryGroupReported
    /\ PeakTimeIsFirstAtMax
    /\ \A p \in ReportedPeaks : (Unit \div 10) * p.peak = MaxOver(p.table, p.rows)

\* C12 amended: the reported peak value is the maximum congestion of the rows
\* considered rounded to one decimal (halves to the even tenth), and
\* peak_time is the time_slot of the first of those rows, in the table's row
\* order, whose unrounded congestion attains the maximum, ties included
C12_PeakIsRoundedAndFirst ==
    /\ EveryGroupReported
    /\ PeakTimeIsFirstAtMax
    /\ \A p \in ReportedPeaks : p.peak = Round1(MaxOver(p.table, p.rows), Unit)

\* a reported peak over rows of which the first is below the maximum and two
\* later ones tie for it at different time slots
C12_Witness ==
    \E p \in ReportedPeaks : \E i, j, k \in p.rows :
        /\ i < j /\ j < k
        /\ p.table[i].honjapdo < MaxOver(p.table, p.rows)
        /\ p.table[j].honjapdo = MaxOver(p.table, p.rows)
        /\ p.table[k].honjapdo = MaxOver(p.table, p.rows)
        /\ p.table[j].sigan # p.table[k].sigan
        /\ p.time = p.table[j].sigan
        /\ p.peak # 0

(***************************************************************************)
(* Properties of the loader                                                *)
(***************************************************************************)
WideTimeCols == {i \in 1..Len(df_wide.columns) : ~InSeq(df_wide.columns[i], expected_cols)}

\* the identifying values and the value a (row, time column) pair carries
OfPair(p) ==
    LET row == df_wide.rows[p[1]]
        at(name) == row[ColIndex(df_wide.columns, name)].s
    IN  <<at(col_yoilgubun), at(col_hoseon), at(col_yeokbeonho), at(col_yeokmyeong),
          at(col_seunghagubun), row[p[2]].n>>

OfRecord(rec) ==
    <<rec.yoil, rec.hoseon, rec.yeokbeonho, rec.yeokmyeong, rec.banghyang, rec.honjapdo>>

\* C1: a wide table of R rows and T time columns reshapes into exactly R*T
\* records, and the records are, with multiplicity, the (row, time column)
\* pairs: each carries its row's five identifying values and its cell's value
C1_ReshapeKeepsEveryCell ==
    pc = "long" =>
        LET pairs == (1..Len(df_wide.rows)) \X WideTimeCols
            recs == 1..Len(df_long)
        IN  /\ Len(df_long) = Len(df_wide.rows) * Cardinality(WideTimeCols)
            /\ \A p \in pairs :
                  Cardinality({k \in recs : OfRecord(df_long[k]) = OfPair(p)})
                    = Cardinality({q \in pairs : OfPair(q) = OfPair(p)})
            /\ \A k \in recs : \E p \in pairs : OfRecord(df_long[k]) = OfPair(p)

C1_Witness ==
    /\ pc = "long"
    /\ Len(df_wide.rows) = 2
    /\ Cardinality(WideTimeCols) = 2
    /\ Len(df_long) = 4

IsNegativeNumeral(s) ==
    /\ Len(s) >= 2
    /\ s[1] = "-"
    /\ \A i \in 2..Len(s) : s[i] \in Digits

IsNumeral(s) == IsNegativeNumeral(s) \/ (s # <<>> /\ \A i \in 1..Len(s) : s[i] \in Digits)

\* C2 as stated: after load_data and to_long_format every record's congestion
\* is >= 0, whatever the raw cells held
C2_CongestionNonNegative ==
    pc = "long" => \A k \in 1..Len(df_long) : df_long[k].honjapdo >= 0

\* C2 amended: every congestion cell is a number, never missing; a cell that
\* is no numeral becomes 0; a value is negative only where the raw cell is a
\* negative numeral; and every record's congestion is one of these cells
C2_CongestionIsNumber ==
    pc = "long" =>
        /\ \A r \in 1..Len(df_wide.rows) : \A i \in WideTimeCols :
              LET raw == strip(file.rows[r][i].s)
                  cell == df_wide.rows[r][i]
              IN  /\ cell.t = "num"
                  /\ ~IsNumeral(raw) => cell.n = 0
                  /\ cell.n < 0 => IsNegativeNumeral(raw)
        /\ \A k \in 1..Len(df_long) :
              \E r \in 1..Len(df_wide.rows) : \E i \in WideTimeCols :
                  df_wide.rows[r][i].t = "num" /\ df_wide.rows[r][i].n = df_long[k].honjapdo

C2_Witness ==
    /\ pc = "long"
    /\ \E r \in 1..Len(file.rows) : \E i \in 1..Len(file.columns) :
          file.rows[r][i] = Str(<<" ", " ">>)
    /\ \E r \in 1..Len(file.rows) : \E i \in 1..Len(file.columns) :
          file.rows[r][i] = Str(<<"x">>)
    /\ \E k \in 1..Len(df_long) : df_long[k].honjapdo = 0
    /\ \E k \in 1..Len(df_long) : df_long[k].honjapdo < 0

SameGroup(a, b) ==
    /\ a.yoil = b.yoil
    /\ a.hoseon = b.hoseon
    /\ a.yeokbeonho = b.yeokbeonho
    /\ a.banghyang = b.banghyang

IsHHMM(t) ==
    /\ Len(t) = 5
    /\ t[3] = ":"
    /\ \A i \in {1, 2, 4, 5} : t[i] \in Digits

\* C3: every time_slot has the form HH:MM, and adjacent records of one
\* (weekday, line, station number, direction) group are in chronological
\* order of the service day
C3_SlotsChronological ==
    pc = "long" =>
        /\ \A k \in 1..Len(df_long) : IsHHMM(df_long[k].sigan)
        /\ \A k \in 1..(Len(df_long) - 1) :
              SameGroup(df_long[k], df_long[k + 1]) =>
                  _time_to_minutes(df_long[k].sigan) <= _time_to_minutes(df_long[k + 1].sigan)

\* C4: once the file is read, load_data ends with a table, never an error
C4_LoadNeverFails == pc # "load_failed"

====
